---- MODULE Spec2Model ----
(***************************************************************************)
(* A model of sudoku.c: the board and its neighbor lists (init_board), the *)
(* loaded clues (load_file), the verifier (verify_solution), the           *)
(* preprocessor (preprocess_board and its four rules) and the backtracking *)
(* search (find_solution, update_neighbors), driven in the order of main.  *)
(*                                                                         *)
(* A Bitmask is modelled as the set of the positions of its 1-bits:        *)
(* bit(k) is {k}, b | bit(k) is b \cup {k}, b & ~bit(k) is b \ {k} and     *)
(* b & bit(k) # 0 is k \in b.  A candidate stack is modelled as the        *)
(* sequence candidate[0..topmask], so topmask = Len(candidate) - 1.        *)
(***************************************************************************)
EXTENDS Integers, Sequences, FiniteSets, TLC

VARIABLES pc, board, saved_board, stats, out, first_time, no_candidates,
          i, j, stack, piece_to_place,
          infile,    \* the input file named on the command line
          loader,    \* linenum of get_line; i and allowN of load_file
          game_N,    \* game.N
          inits,     \* history: the number of calls of init_board so far
          order,     \* the order of the four calls in preprocess_board
          passes     \* history: iterations of the loop of preprocess_board

vars == <<pc, board, saved_board, stats, out, first_time, no_candidates,
          i, j, stack, piece_to_place,
          infile, loader, game_N, inits, order, passes>>

loader_vars == <<infile, loader, game_N, inits>>

-----------------------------------------------------------------------------
(* Board geometry: init_board *)

N == 3

MAX_N == 6

N2 == N * N

num_squares == N2 * N2

num_neighbors == 3 * N2 - 2 * N - 1

Values == 1..N2

Cells == Values \X Values

Min(S) == CHOOSE x \in S : \A y \in S : x <= y

\* f itself, with its values computed once rather than at every application
Tabulate(f) == IF f = f THEN f ELSE f

\* the corner computed from row and col without the - 1
find_sub_square_no_offset(n, row, col) ==
    << n * (row \div n) + 1, n * (col \div n) + 1 >>

\* n is G->N
find_sub_square(n, row, col) ==
    << n * ((row - 1) \div n) + 1, n * ((col - 1) \div n) + 1 >>

\* the m-th index of lo..hi that is not x (the loops that skip ii == i)
SkipIndex(lo, m, x) == IF lo + m - 1 < x THEN lo + m - 1 ELSE lo + m

\* neighbor_i/neighbor_j of square (r, c), in the order init_board ( G, n )
\* fills them
NeighborList(n, r, c) ==
    LET s == find_sub_square(n, r, c)
        column == [k \in 1..(n * n - 1) |-> << SkipIndex(1, k, r), c >>]
        row    == [k \in 1..(n * n - 1) |-> << r, SkipIndex(1, k, c) >>]
        sub    == [k \in 1..((n - 1) * (n - 1)) |->
                     << SkipIndex(s[1], ((k - 1) \div (n - 1)) + 1, r),
                        SkipIndex(s[2], ((k - 1) % (n - 1)) + 1, c) >>]
    IN  column \o row \o sub

neighbor == Tabulate([c \in Cells |-> NeighborList(N, c[1], c[2])])

NeighborSet ==
    Tabulate([c \in Cells |-> {neighbor[c][k] : k \in 1..Len(neighbor[c])}])

\* a Square as init_board leaves it (topmask = -1)
InitSquare == [cur_value |-> 0, frozen |-> FALSE,
               candidate |-> << >>, num_candidates |-> 0]

\* the board init_board ( G, n ) leaves
init_board(n) == [c \in (1..(n * n)) \X (1..(n * n)) |-> InitSquare]

\* saved_board before save_board: zero-filled static storage (topmask = 0)
ZeroSquare == [cur_value |-> 0, frozen |-> FALSE,
               candidate |-> << {} >>, num_candidates |-> 0]

InitStats == [num_occupied_squares_originally       |-> 0,
              sum_num_candidates_originally         |-> 0,
              num_frozen_as_only_candidate          |-> 0,
              num_frozen_by_row_optimization        |-> 0,
              num_frozen_by_column_optimization     |-> 0,
              num_frozen_by_subsquare_optimization  |-> 0,
              sum_num_candidates_after_optimization |-> 0,
              num_unstackings                       |-> 0]

-----------------------------------------------------------------------------
(* The input files: the solved grid of problems/hard-02.txt and grids made *)
(* from it, each with up to MaxHoles further squares blanked ('-').        *)

MaxHoles == 6

Puzzles ==
 << << <<9,4,6,5,1,3,7,2,8>>,
       <<5,2,1,7,9,8,6,4,3>>,
       <<8,3,7,2,6,4,5,1,9>>,
       <<3,6,4,8,5,9,2,7,1>>,
       <<2,8,5,6,7,1,3,9,4>>,
       <<7,1,9,3,4,2,8,5,6>>,
       <<4,7,2,9,3,6,1,8,5>>,
       <<1,5,3,4,8,7,9,6,2>>,
       <<6,9,8,1,2,5,4,3,7>> >>,
    << <<9,4,6,5,1,3,7,2,8>>,
       <<5,2,1,7,9,8,6,4,3>>,
       <<8,3,7,2,6,4,5,1,9>>,
       <<0,6,4,8,5,9,2,7,1>>,
       <<2,8,5,6,7,1,3,9,4>>,
       <<7,1,9,3,4,2,8,5,6>>,
       <<4,7,2,9,3,6,1,8,5>>,
       <<1,5,0,4,8,7,9,0,2>>,
       <<0,9,8,1,2,5,4,6,7>> >>,
    << <<9,4,6,5,1,3,0,0,0>>,
       <<5,2,1,7,9,0,8,0,0>>,
       <<8,3,7,2,6,0,5,1,9>>,
       <<3,6,4,8,5,9,0,0,1>>,
       <<2,8,5,6,7,1,3,9,4>>,
       <<7,1,9,3,4,2,0,5,0>>,
       <<4,7,2,9,3,6,1,8,5>>,
       <<1,5,3,4,8,7,9,0,0>>,
       <<6,9,8,1,2,5,4,0,0>> >>,
    << <<4,4,6,5,1,3,7,2,8>>,
       <<5,2,1,7,9,8,6,4,3>>,
       <<8,3,7,2,6,4,5,1,9>>,
       <<3,6,4,8,5,9,2,7,1>>,
       <<2,8,5,6,7,1,3,9,4>>,
       <<7,1,9,3,4,2,8,5,6>>,
       <<4,7,2,9,3,6,1,8,5>>,
       <<1,5,3,4,8,7,9,6,2>>,
       <<6,9,8,1,2,5,4,3,7>> >>,
    << <<0,4,6,5,1,3,7,2,8>>,
       <<9,2,1,7,0,8,6,4,3>>,
       <<8,3,7,2,6,4,5,1,9>>,
       <<3,6,4,8,5,9,2,7,1>>,
       <<2,8,5,6,7,1,3,9,4>>,
       <<7,1,9,3,4,2,8,5,6>>,
       <<4,7,2,9,3,6,1,8,5>>,
       <<1,5,3,4,8,7,9,6,2>>,
       <<6,9,8,1,2,5,4,3,7>> >>,
    << <<0,4,6,5,0,0,0,2,8>>,
       <<5,2,1,7,0,0,6,4,3>>,
       <<0,3,7,0,6,4,0,1,9>>,
       <<0,0,4,0,5,9,0,0,0>>,
       <<2,0,5,0,0,0,0,9,0>>,
       <<7,1,9,0,0,0,0,5,6>>,
       <<4,7,0,9,3,6,1,8,0>>,
       <<0,0,0,0,0,7,9,0,0>>,
       <<0,9,0,0,2,5,0,0,0>> >>,
    << <<9,4,6,5,1,0,3,2,8>>,
       <<5,2,1,7,9,8,6,4,3>>,
       <<8,3,7,2,6,4,5,1,9>>,
       <<3,6,4,8,5,9,2,7,1>>,
       <<2,8,5,6,7,1,0,9,4>>,
       <<7,1,9,3,4,2,8,5,6>>,
       <<4,7,2,9,3,6,1,8,5>>,
       <<1,5,3,4,8,7,9,6,2>>,
       <<6,9,8,1,2,5,4,3,7>> >>,
    << <<9,0,6,5,0,3,0,2,8>>,
       <<0,0,0,7,9,0,6,0,3>>,
       <<0,0,0,2,6,0,0,0,0>>,
       <<0,6,4,8,5,0,0,0,1>>,
       <<2,0,5,6,0,0,0,0,0>>,
       <<7,0,0,0,4,0,0,5,6>>,
       <<0,0,2,9,3,6,1,0,5>>,
       <<0,5,3,4,8,0,0,6,2>>,
       <<6,9,0,0,0,0,0,3,0>> >>,
    << <<0,4,0,0,1,0,7,2,0>>,
       <<5,2,1,0,0,0,0,0,0>>,
       <<0,0,0,0,0,8,0,0,0>>,
       <<3,0,4,8,0,0,2,0,1>>,
       <<0,0,5,0,0,0,3,9,4>>,
       <<0,0,0,3,4,0,8,0,6>>,
       <<0,0,2,9,0,0,0,8,0>>,
       <<0,0,0,4,8,0,0,6,2>>,
       <<0,0,8,0,0,0,0,3,0>> >> >>

HoleOrder == << <<1,2>>, <<1,8>>, <<2,2>>, <<2,8>>, <<1,1>>,
                <<3,1>>, <<9,1>>, <<8,6>> >>

HoleCells == {HoleOrder[k] : k \in 1..MaxHoles}

\* the integers load_file reads for the file of puzzle p with holes H
InputGrid(p, H) ==
    [c \in Cells |-> IF c \in H THEN 0 ELSE Puzzles[p][c[1]][c[2]]]

-----------------------------------------------------------------------------
(* The text of a file: a sequence of lines, a line a sequence of characters *)
(* (one-character strings, without the newline).                            *)

\* mapToInt of map_int_to_alphabet, from index 1
AlphabetTable ==
    << "1", "2", "3", "4", "5", "6", "7", "8", "9", "0",
       "A", "B", "C", "D", "E", "F", "G", "H", "I", "J", "K", "L", "M",
       "N", "O", "P", "Q", "R", "S", "T", "U", "V", "W", "X", "Y", "Z",
       "a", "b", "c", "d", "e", "f", "g", "h", "i", "j", "k", "l", "m",
       "n", "o", "p", "q", "r", "s", "t", "u", "v", "w", "x", "y", "z",
       "#", "$" >>

map_int_to_alphabet(v) == IF v = 0 THEN "-" ELSE AlphabetTable[v]

\* an unknown character read as a blank
map_alphabet_to_int_unknown_is_zero(ch) ==
    IF \E k \in DOMAIN AlphabetTable : AlphabetTable[k] = ch
    THEN CHOOSE k \in DOMAIN AlphabetTable : AlphabetTable[k] = ch
    ELSE 0

map_alphabet_to_int(ch) ==
    IF \E k \in DOMAIN AlphabetTable : AlphabetTable[k] = ch
    THEN CHOOSE k \in DOMAIN AlphabetTable : AlphabetTable[k] = ch
    ELSE -1

isspace(ch) == ch \in {" ", "\t"}

isdigit(ch) == ch \in {"0", "1", "2", "3", "4", "5", "6", "7", "8", "9"}

\* the character at position k of a line; NUL is the terminating '\0'
NUL == "NUL"

CharAt(line, k) == IF k > Len(line) THEN NUL ELSE line[k]

\* while ( isspace(*c) ) ++c ;
RECURSIVE SkipSpace(_, _)
SkipSpace(line, k) ==
    IF isspace(CharAt(line, k)) THEN SkipSpace(line, k + 1) ELSE k

\* the digits atoi converts, from position k on
RECURSIVE atoi_digits(_, _, _)
atoi_digits(line, k, acc) ==
    IF isdigit(CharAt(line, k))
    THEN atoi_digits(line, k + 1,
                     10 * acc + (map_alphabet_to_int(line[k]) % 10))
    ELSE acc

\* atoi ( linebuff + k - 1 )
atoi(line, k) ==
    LET p == SkipSpace(line, k)
    IN  IF CharAt(line, p) = "-" THEN 0 - atoi_digits(line, p + 1, 0)
        ELSE IF CharAt(line, p) = "+" THEN atoi_digits(line, p + 1, 0)
        ELSE atoi_digits(line, p, 0)

\* strncmp ( linebuff, "//", 2 ) == 0
IsComment(line) == CharAt(line, 1) = "/" /\ CharAt(line, 2) = "/"

\* strncmp ( linebuff+2, "N=", 2 ) == 0
HasDirective(line) == CharAt(line, 3) = "N" /\ CharAt(line, 4) = "="

\* trailing whitespace trimmed
RECURSIVE Trim(_)
Trim(line) ==
    IF Len(line) > 0 /\ isspace(line[Len(line)])
    THEN Trim(SubSeq(line, 1, Len(line) - 1))
    ELSE line

\* the square load_file leaves for a '-' (value 0) or for a piece
LoadedSquare(sq, d, frozen) ==
    [sq EXCEPT !.cur_value = d, !.frozen = frozen, !.candidate = << >>]

\* the test on d that load_file makes before it stores d
BadPiece_unknown_only(d, n2) == d = -1

BadPiece(d, n2) == d = -1 \/ d > n2

\* the j-loop of load_file over the columns of row i; r holds the board, the
\* count of occupied squares and whether exit(1) was reached
RECURSIVE load_row(_, _, _, _, _, _)
load_row(r, n2, row, col, line, pos) ==
    IF col > n2 THEN r
    ELSE LET p  == SkipSpace(line, pos)
             ch == CharAt(line, p)
             d  == map_alphabet_to_int(ch)
         IN  IF ch = "-"
             THEN load_row([r EXCEPT !.board[<<row, col>>] =
                                          LoadedSquare(@, 0, FALSE)],
                           n2, row, col + 1, line, p + 1)
             ELSE IF BadPiece(d, n2)
             THEN [r EXCEPT !.error = TRUE, !.at = <<row, col>>]
             ELSE load_row([r EXCEPT !.board[<<row, col>>] =
                                          LoadedSquare(@, d, TRUE),
                                     !.occupied = @ + 1],
                           n2, row, col + 1, line, p + 1)

\* the line of row r of a grid: its pieces written by map_int_to_alphabet,
\* one blank between them
RowText(grid, r) ==
    Tabulate([k \in 1..(2 * N2 - 1) |->
                IF k % 2 = 1
                THEN map_int_to_alphabet(grid[<<r, (k + 1) \div 2>>])
                ELSE " "])

Text(grid) == Tabulate([r \in 1..N2 |-> RowText(grid, r)])

Directive(d) == << "/", "/", "N", "=", d >>

Comment == << "/", "/", " ", "N", "=", "4" >>

Blank == << " ", "\t" >>

WithToken(text, r, c, ch) ==
    Tabulate([k \in 1..N2 |->
                IF k = r THEN Tabulate([m \in 1..Len(text[r]) |->
                                          IF m = 2 * c - 1 THEN ch
                                          ELSE text[r][m]])
                ELSE text[k]])

\* the same rows with tabs around the pieces, or with nothing between them
Tabbed(text) ==
    [r \in 1..N2 |->
        << "\t" >> \o [k \in 1..(2 * N2 - 1) |->
                          IF k % 2 = 1 THEN text[r][k] ELSE "\t"] \o << " " >>]

Packed(text) == [r \in 1..N2 |-> [k \in 1..N2 |-> text[r][2 * k - 1]]]

\* the files made from the text T of a grid: comments, blank lines, N
\* directives before and after the first data line, pieces that are not in
\* the alphabet or too large, a missing piece, a missing line
VariantIds == 1..22

Variant(T, v) ==
    CASE v = 1 -> T
      [] v = 2 -> << Comment, Blank, T[1], Comment, << >> >> \o SubSeq(T, 2, N2)
      [] v = 3 -> << Directive("3") >> \o T
      [] v = 4 -> << Directive("4") >> \o T
      [] v = 5 -> << Directive("3"), Comment, Directive("3") >> \o T
      [] v = 6 -> << Directive("4"), Directive("3"), T[1], Directive("5") >>
                    \o SubSeq(T, 2, N2)
      [] v = 7 -> << Directive("5") >> \o T
      [] v = 8 -> << Directive("6") >> \o T
      [] v = 9 -> << T[1], Directive("4") >> \o SubSeq(T, 2, N2)
      [] v = 10 -> << T[1], T[2], Directive("9"), Directive("3") >>
                     \o SubSeq(T, 3, N2)
      [] v = 11 -> << Directive("9") >> \o T
      [] v = 12 -> << Directive("x") >> \o T
      [] v = 13 -> << Blank, << "/", "/", "N", "=", " ", "+", "3", "x" >> >> \o T
      [] v = 14 -> WithToken(T, 3, 5, "?")
      [] v = 15 -> WithToken(T, 1, 1, "X")
      [] v = 16 -> WithToken(T, N2, N2, "0")
      [] v = 17 -> WithToken(T, 2, 4, "/")
      [] v = 18 -> SubSeq(T, 1, N2 - 1)
      [] v = 19 -> [T EXCEPT ![4] = SubSeq(@, 1, 2 * N2 - 2)]
      [] v = 20 -> Tabbed(T)
      [] v = 21 -> Packed(T)
      [] v = 22 -> T \o << WithToken(T, 1, 1, "?")[1], Directive("9") >>

\* the grids whose files the whole program is run on; the last grid of
\* Puzzles, with 52 open squares, is preprocessed only
SearchedPuzzles == 1..(Len(Puzzles) - 1)

\* the files: every grid as plain text, and the variants of two grids
PlainFiles ==
    UNION {{[p |-> p, H |-> H, v |-> 1] :
               H \in SUBSET {h \in HoleCells : Puzzles[p][h[1]][h[2]] # 0}} :
           p \in SearchedPuzzles}

VariantFiles ==
    {[p |-> p, H |-> {}, v |-> v] :
        p \in {1, 6}, v \in VariantIds}

Files == PlainFiles \cup VariantFiles

\* the lines of file f
FileText(f) == Variant(Text(InputGrid(f.p, f.H)), f.v)

-----------------------------------------------------------------------------
(* Verifier *)

RowCells(r) == {<<r, c>> : c \in Values}

ColCells(c) == {<<r, c>> : r \in Values}

SubCells(r, c) == {<<r + ii, c + jj>> : ii \in 0..(N - 1), jj \in 0..(N - 1)}

SubOrigins == {1 + N * m : m \in 0..(N - 1)}

\* used[k] for one row, column or subsquare
used(b, unit, k) == Cardinality({c \in unit : b[c].cur_value = k})

\* the test used[k] > 1 written as used[k] > 2
UnitOk_allows_two(b, unit, full_solution) ==
    \A k \in Values :
        /\ ~ (used(b, unit, k) > 2)
        /\ ~ (full_solution /\ used(b, unit, k) # 1)

UnitOk(b, unit, full_solution) ==
    \A k \in Values :
        /\ ~ (used(b, unit, k) > 1)
        /\ ~ (full_solution /\ used(b, unit, k) # 1)

\* verify_solution without its loop over the subsquares
verify_solution_without_subsquares(b, full_solution) ==
    /\ \A r \in Values : UnitOk(b, RowCells(r), full_solution)
    /\ \A c \in Values : UnitOk(b, ColCells(c), full_solution)

verify_solution(b, full_solution) ==
    /\ \A r \in Values : UnitOk(b, RowCells(r), full_solution)
    /\ \A c \in Values : UnitOk(b, ColCells(c), full_solution)
    /\ \A r \in SubOrigins : \A c \in SubOrigins :
           UnitOk(b, SubCells(r, c), full_solution)

verify_solution_to_our_problem(b, saved) ==
    \A c \in Cells :
        ~ (saved[c].cur_value # 0 /\ saved[c].cur_value # b[c].cur_value)

-----------------------------------------------------------------------------
(* Candidate engine *)

\* seen[] filled from the neighbors of the row and the column only
find_candidate_row_and_column(b, c) ==
    IF b[c].frozen THEN b[c]
    ELSE LET seen == {b[neighbor[c][k]].cur_value : k \in 1..(2 * (N2 - 1))}
             mask == {k \in Values : k \notin seen}
         IN  [b[c] EXCEPT !.candidate = << mask >>,
                          !.num_candidates = Cardinality(mask)]

find_candidate(b, c) ==
    IF b[c].frozen THEN b[c]
    ELSE LET seen == {b[neighbor[c][k]].cur_value : k \in 1..num_neighbors}
             mask == {k \in Values : k \notin seen}
         IN  [b[c] EXCEPT !.candidate = << mask >>,
                          !.num_candidates = Cardinality(mask)]

find_candidates(b) == Tabulate([c \in Cells |-> find_candidate(b, c)])

\* the value find_candidates returns, read off the board it leaves
find_candidates_retval(b) ==
    \A c \in Cells : b[c].frozen \/ b[c].candidate[1] # {}

get_first_candidate(mask) == IF mask \cap Values = {} THEN 0 ELSE Min(mask \cap Values)

freeze_one(b, c, piece) ==
    [b EXCEPT ![c] = [cur_value |-> piece, frozen |-> TRUE,
                      candidate |-> << >>, num_candidates |-> 0]]

\* candidate[topmask]
TopMask(sq) == sq.candidate[Len(sq.candidate)]

\* the asserts of update_neighbors on q->topmask
update_neighbors_asserts(b, c, make_avail) ==
    \A q \in NeighborSet[c] :
        b[q].frozen \/ Len(b[q].candidate) >= (IF make_avail THEN 2 ELSE 1)

\* update_neighbors turning the bit off in the top bitmask without stacking
update_neighbors_in_place(b, c, piece_number, make_avail) ==
    [q \in Cells |->
        IF q \in NeighborSet[c] /\ ~ b[q].frozen
        THEN IF make_avail
             THEN [b[q] EXCEPT !.candidate = SubSeq(@, 1, Len(@) - 1)]
             ELSE IF Len(b[q].candidate) = 0 THEN b[q]
             ELSE [b[q] EXCEPT !.candidate[Len(b[q].candidate)] =
                                  @ \ {piece_number}]
        ELSE b[q]]

\* update_neighbors stacking the old bitmask without turning the bit off
update_neighbors_bit_kept(b, c, piece_number, make_avail) ==
    [q \in Cells |->
        IF q \in NeighborSet[c] /\ ~ b[q].frozen
        THEN IF make_avail
             THEN [b[q] EXCEPT !.candidate = SubSeq(@, 1, Len(@) - 1)]
             ELSE IF Len(b[q].candidate) = 0 THEN b[q]
             ELSE [b[q] EXCEPT !.candidate = Append(@, TopMask(b[q]))]
        ELSE b[q]]

\* update_neighbors stacking a bitmask only when the bit was on
update_neighbors_push_if_set(b, c, piece_number, make_avail) ==
    [q \in Cells |->
        IF q \in NeighborSet[c] /\ ~ b[q].frozen
        THEN IF make_avail
             THEN [b[q] EXCEPT !.candidate = SubSeq(@, 1, Len(@) - 1)]
             ELSE IF Len(b[q].candidate) = 0 THEN b[q]
             ELSE IF piece_number \notin TopMask(b[q]) THEN b[q]
             ELSE [b[q] EXCEPT !.candidate =
                                  Append(@, TopMask(b[q]) \ {piece_number})]
        ELSE b[q]]

\* update_neighbors unstacking two bitmasks to make a piece available
update_neighbors_unstack_two(b, c, piece_number, make_avail) ==
    [q \in Cells |->
        IF q \in NeighborSet[c] /\ ~ b[q].frozen
        THEN IF make_avail
             THEN [b[q] EXCEPT !.candidate = SubSeq(@, 1, Len(@) - 2)]
             ELSE IF Len(b[q].candidate) = 0 THEN b[q]
             ELSE [b[q] EXCEPT !.candidate =
                                  Append(@, TopMask(b[q]) \ {piece_number})]
        ELSE b[q]]

update_neighbors(b, c, piece_number, make_avail) ==
    [q \in Cells |->
        IF q \in NeighborSet[c] /\ ~ b[q].frozen
        THEN IF make_avail
             THEN [b[q] EXCEPT !.candidate = SubSeq(@, 1, Len(@) - 1)]
             ELSE IF Len(b[q].candidate) = 0 THEN b[q]
             ELSE [b[q] EXCEPT !.candidate =
                                  Append(@, TopMask(b[q]) \ {piece_number})]
        ELSE b[q]]

-----------------------------------------------------------------------------
(* Preprocessor *)

\* the sum of num_candidates over the squares cs, taken in row-major order
\* (squares lo..hi, split in halves)
SumCells(b, cs) ==
    LET RECURSIVE Sum(_, _)
        Sum(lo, hi) ==
            IF lo = hi
            THEN LET c == << ((lo - 1) \div N2) + 1, ((lo - 1) % N2) + 1 >>
                 IN  IF c \in cs THEN b[c].num_candidates ELSE 0
            ELSE Sum(lo, (lo + hi) \div 2) + Sum(((lo + hi) \div 2) + 1, hi)
    IN  Sum(1, num_squares)

compute_candidate_stats(b) == SumCells(b, {c \in Cells : ~ b[c].frozen})

FrozenCells(b) == {c \in Cells : b[c].frozen}

OnlyOneSquares(b) ==
    {c \in Cells : (~ b[c].frozen) /\ b[c].num_candidates = 1}

check_for_only_one_candidate(b) ==
    [c \in Cells |->
        IF c \in OnlyOneSquares(b)
        THEN freeze_one(b, c, get_first_candidate(b[c].candidate[1]))[c]
        ELSE b[c]]

\* the unfrozen squares of a unit whose candidate[0] has bit k: seen[k] of them
SeenIn(b, unit, k) ==
    {c \in unit : (~ b[c].frozen) /\ k \in b[c].candidate[1]}

\* the test seen[k] == 1 replaced by seen[k] >= 1
TryUnits_seen_any(b, units) ==
    LET hits == {u \in 1..Len(units) :
                    \E k \in Values : Cardinality(SeenIn(b, units[u], k)) >= 1}
    IN  IF hits = {} THEN [found |-> FALSE, square |-> <<0, 0>>, piece |-> 0]
        ELSE LET u == Min(hits)
                 k == Min({v \in Values :
                              Cardinality(SeenIn(b, units[u], v)) >= 1})
                 c == CHOOSE x \in SeenIn(b, units[u], k) : TRUE
             IN  [found |-> TRUE, square |-> c, piece |-> k]

\* units is the sequence of rows, columns or subsquares in scan order; the
\* first unit with a value seen once, and the least such value, is frozen
TryUnits(b, units) ==
    LET hits == {u \in 1..Len(units) :
                    \E k \in Values : Cardinality(SeenIn(b, units[u], k)) = 1}
    IN  IF hits = {} THEN [found |-> FALSE, square |-> <<0, 0>>, piece |-> 0]
        ELSE LET u == Min(hits)
                 k == Min({v \in Values :
                              Cardinality(SeenIn(b, units[u], v)) = 1})
                 c == CHOOSE x \in SeenIn(b, units[u], k) : TRUE
             IN  [found |-> TRUE, square |-> c, piece |-> k]

RowUnits == [r \in Values |-> RowCells(r)]

ColUnits == [c \in Values |-> ColCells(c)]

SubUnits == [u \in Values |->
               SubCells(1 + N * ((u - 1) \div N), 1 + N * ((u - 1) % N))]

\* freeze_one called with the column and the piece exchanged
try_row_optimization_swapped(b) ==
    LET r == TryUnits(b, RowUnits)
    IN  [found |-> r.found,
         board |-> IF r.found
                   THEN freeze_one(b, <<r.square[1], r.piece>>, r.square[2])
                   ELSE b]

\* freeze_one ( G, i, index[k] , k ) and return true, or return false
try_row_optimization(b) ==
    LET r == TryUnits(b, RowUnits)
    IN  [found |-> r.found,
         board |-> IF r.found
                   THEN freeze_one(b, <<r.square[1], r.square[2]>>, r.piece)
                   ELSE b]

\* freeze_one called with the row and the column exchanged
try_column_optimization_transposed(b) ==
    LET r == TryUnits(b, ColUnits)
    IN  [found |-> r.found,
         board |-> IF r.found
                   THEN freeze_one(b, <<r.square[2], r.square[1]>>, r.piece)
                   ELSE b]

\* freeze_one ( G, index[k], j , k ) and return true, or return false
try_column_optimization(b) ==
    LET r == TryUnits(b, ColUnits)
    IN  [found |-> r.found,
         board |-> IF r.found
                   THEN freeze_one(b, <<r.square[1], r.square[2]>>, r.piece)
                   ELSE b]

\* a value seen in a subsquare frozen although other squares can hold it
try_subsquare_optimization_seen_any(b) ==
    LET r == TryUnits_seen_any(b, SubUnits)
    IN  [found |-> r.found,
         board |-> IF r.found
                   THEN freeze_one(b, <<r.square[1], r.square[2]>>, r.piece)
                   ELSE b]

try_subsquare_optimization(b) ==
    LET r == TryUnits(b, SubUnits)
    IN  [found |-> r.found,
         board |-> IF r.found
                   THEN freeze_one(b, <<r.square[1], r.square[2]>>, r.piece)
                   ELSE b]

\* a rule that froze a square leaving the loop
AfterRule_breaks == "break"

\* the continue after a rule that froze a square
AfterRule == "continue"

\* the chain of rules without the call of try_subsquare_optimization
apply_rules_without_subsquare(b1) ==
    LET row == try_row_optimization(b1)
        col == try_column_optimization(b1)
    IN  IF OnlyOneSquares(b1) # {}
        THEN [board |-> check_for_only_one_candidate(b1),
              result |-> AfterRule, frozen_by |-> "only_one",
              count |-> Cardinality(OnlyOneSquares(b1))]
        ELSE IF row.found
        THEN [board |-> row.board, result |-> AfterRule,
              frozen_by |-> "row", count |-> 1]
        ELSE IF col.found
        THEN [board |-> col.board, result |-> AfterRule,
              frozen_by |-> "column", count |-> 1]
        ELSE [board |-> b1, result |-> "break", frozen_by |-> "none",
              count |-> 0]

\* the four rules of one iteration, tried on the board b1 that
\* find_candidates left
apply_rules(b1) ==
    LET row == try_row_optimization(b1)
        col == try_column_optimization(b1)
        sub == try_subsquare_optimization(b1)
    IN  IF OnlyOneSquares(b1) # {}
        THEN [board |-> check_for_only_one_candidate(b1),
              result |-> AfterRule, frozen_by |-> "only_one",
              count |-> Cardinality(OnlyOneSquares(b1))]
        ELSE IF row.found
        THEN [board |-> row.board, result |-> AfterRule,
              frozen_by |-> "row", count |-> 1]
        ELSE IF col.found
        THEN [board |-> col.board, result |-> AfterRule,
              frozen_by |-> "column", count |-> 1]
        ELSE IF sub.found
        THEN [board |-> sub.board, result |-> AfterRule,
              frozen_by |-> "subsquare", count |-> 1]
        ELSE [board |-> b1, result |-> "break", frozen_by |-> "none",
              count |-> 0]

\* an iteration that does not test no_candidates before the rules
preprocess_pass_unchecked(b) == apply_rules(find_candidates(b))

\* one iteration of the while loop of preprocess_board
preprocess_pass(b) ==
    LET b1 == find_candidates(b)
    IN  IF ~ find_candidates_retval(b1)
        THEN [board |-> b1, result |-> "no_candidates", frozen_by |-> "none",
              count |-> 0]
        ELSE apply_rules(b1)

RECURSIVE preprocess_board(_)
preprocess_board(b) ==
    LET r == preprocess_pass(b)
    IN  IF r.result = "continue" THEN preprocess_board(r.board)
        ELSE [board |-> r.board, retval |-> r.result # "no_candidates"]

\* the four calls of one iteration, by the name of the rule
Rule(name, b) ==
    CASE name = "only_one" ->
           [found |-> OnlyOneSquares(b) # {},
            board |-> check_for_only_one_candidate(b)]
      [] name = "row" -> try_row_optimization(b)
      [] name = "column" -> try_column_optimization(b)
      [] name = "subsquare" -> try_subsquare_optimization(b)

\* the order in which preprocess_board tries the rules
SourceOrder == << "only_one", "row", "column", "subsquare" >>

Orders ==
    {o \in [1..4 -> {"only_one", "row", "column", "subsquare"}] :
        \A a, b \in 1..4 : a # b => o[a] # o[b]}

\* the if ... continue chain of one iteration with the rules tried in the
\* order o on the board b1 that find_candidates left
RECURSIVE apply_rules_in(_, _, _)
apply_rules_in(o, k, b1) ==
    IF k > Len(o)
    THEN [board |-> b1, result |-> "break", frozen_by |-> "none", count |-> 0]
    ELSE LET r == Rule(o[k], b1)
         IN  IF r.found
             THEN [board |-> r.board, result |-> AfterRule,
                   frozen_by |-> o[k],
                   count |-> IF o[k] = "only_one"
                             THEN Cardinality(OnlyOneSquares(b1)) ELSE 1]
             ELSE apply_rules_in(o, k + 1, b1)

\* one iteration of the while loop of preprocess_board with the rules tried
\* in the order o
preprocess_pass_in(o, b) ==
    LET b1 == find_candidates(b)
    IN  IF ~ find_candidates_retval(b1)
        THEN [board |-> b1, result |-> "no_candidates", frozen_by |-> "none",
              count |-> 0]
        ELSE apply_rules_in(o, 1, b1)

-----------------------------------------------------------------------------
(* Backtracking search *)

\* the k-loop starting one candidate too far
NextPiece_skips_one(mask, ptp) ==
    LET ks == {k \in Values : k > ptp + 1 /\ k \in mask}
    IN  IF ks = {} THEN 0 ELSE Min(ks)

\* the k-loop scanning the candidates downwards
NextPiece_largest(mask, ptp) ==
    LET ks == {k \in Values : k > ptp /\ k \in mask}
    IN  IF ks = {} THEN 0 ELSE CHOOSE x \in ks : \A y \in ks : x >= y

\* the k-loop of find_solution: the least k > piece_to_place with its bit set
NextPiece(mask, ptp) ==
    LET ks == {k \in Values : k > ptp /\ k \in mask}
    IN  IF ks = {} THEN 0 ELSE Min(ks)

\* ++j of the column loop, and ++i of the row loop when the row is finished
NextI(r, c) == IF c < N2 THEN r ELSE r + 1

\* the column loop without its ++j
NextJ_stays(r, c) == c

NextJ(r, c) == IF c < N2 THEN c + 1 ELSE 1

\* the threshold set past the last piece, whatever the unstacked square held
ResumeThreshold_last(sq) == N2

\* the threshold set one below the piece of the unstacked square
ResumeThreshold_below(sq) == sq.cur_value - 1

\* piece_to_place = p->cur_value of the unstacked square
ResumeThreshold(sq) == sq.cur_value

\* the coordinates stacked in the wrong arrays
push_transposed(st, r, c) == Append(st, <<c, r>>)

\* ++top ; row_stack[top] = i ; col_stack[top] = j
push(st, r, c) == Append(st, <<r, c>>)

\* a failed assert that lets find_solution return
AfterAssertFailure_returns == "postverify"

\* where control is after a failed assert
AfterAssertFailure == "aborted"

-----------------------------------------------------------------------------
(* main *)

Init ==
    /\ pc = "load"
    /\ board = init_board(N)
    /\ saved_board = [c \in Cells |-> ZeroSquare]
    /\ stats = InitStats
    /\ out = << >>
    /\ first_time = TRUE
    /\ no_candidates = FALSE
    /\ i = 0
    /\ j = 0
    /\ stack = << >>
    /\ piece_to_place = 0
    /\ infile \in Files
    /\ loader = [linenum |-> 0, i |-> 1, allowN |-> TRUE]
    /\ game_N = N
    /\ inits = 1
    /\ order = SourceOrder
    /\ passes = 0

\* allowN left true after the first data line
AllowNAfterRow_kept == TRUE

\* allowN = false ;    // Can't change N after first line
AllowNAfterRow == FALSE

\* the line that the next fgets of get_line reads
NextLine == FileText(infile)[loader.linenum + 1]

AtEndOfFile == loader.linenum + 1 > Len(FileText(infile))

main_vars == <<saved_board, first_time, no_candidates, i, j, stack,
               piece_to_place, infile>>

\* get_line: at the end of the file load_file returns with the rows it has
GetLineEOF_load_returns ==
    /\ pc = "load"
    /\ AtEndOfFile
    /\ loader' = [loader EXCEPT !.linenum = @ + 1]
    /\ out' = Append(out, "board")
    /\ pc' = "save"
    /\ UNCHANGED <<board, stats, game_N, inits>>
    /\ UNCHANGED main_vars
    /\ UNCHANGED <<order, passes>>

\* get_line: fgets returns NULL
GetLineEOF ==
    /\ pc = "load"
    /\ AtEndOfFile
    /\ loader' = [loader EXCEPT !.linenum = @ + 1]
    /\ out' = Append(out, "ended prematurely")
    /\ pc' = "exit"
    /\ UNCHANGED <<board, stats, game_N, inits>>
    /\ UNCHANGED main_vars
    /\ UNCHANGED <<order, passes>>

\* get_line: a comment that is not taken as a directive, or a line of
\* whitespace
GetLineSkip ==
    /\ pc = "load"
    /\ ~ AtEndOfFile
    /\ IF IsComment(NextLine)
       THEN ~ loader.allowN \/ ~ HasDirective(NextLine)
       ELSE Trim(NextLine) = << >>
    /\ loader' = [loader EXCEPT !.linenum = @ + 1]
    /\ UNCHANGED <<pc, board, stats, out, game_N, inits>>
    /\ UNCHANGED main_vars
    /\ UNCHANGED <<order, passes>>

\* get_line: a line '//N=d' while allowN is true
GetLineDirective ==
    /\ pc = "load"
    /\ ~ AtEndOfFile
    /\ IsComment(NextLine)
    /\ loader.allowN
    /\ HasDirective(NextLine)
    /\ loader' = [loader EXCEPT !.linenum = @ + 1]
    /\ LET n == atoi(NextLine, 5)
       IN  IF 3 <= n /\ n <= MAX_N
           THEN /\ board' = init_board(n)
                /\ stats' = InitStats
                /\ game_N' = n
                /\ inits' = inits + 1
                /\ UNCHANGED <<pc, out>>
           ELSE /\ out' = Append(out, "an integer in the range does not follow")
                /\ pc' = "exit"
                /\ UNCHANGED <<board, stats, game_N, inits>>
    /\ UNCHANGED main_vars
    /\ UNCHANGED <<order, passes>>

\* get_line returns a data line and load_file loads row i from it; after the
\* last row load_file returns and main prints the board
LoadRow ==
    /\ pc = "load"
    /\ ~ AtEndOfFile
    /\ ~ IsComment(NextLine)
    /\ Trim(NextLine) # << >>
    /\ LET r == load_row([board |-> board, occupied |-> 0, error |-> FALSE,
                          at |-> <<0, 0>>],
                         game_N * game_N, loader.i, 1, Trim(NextLine), 1)
       IN  /\ board' = r.board
           /\ stats' = [stats EXCEPT !.num_occupied_squares_originally =
                                         @ + r.occupied]
           /\ IF r.error
              THEN /\ out' = Append(out, "is not '-' nor a valid character")
                   /\ pc' = "exit"
                   /\ loader' = [loader EXCEPT !.linenum = @ + 1,
                                               !.allowN = AllowNAfterRow]
              ELSE /\ loader' = [linenum |-> loader.linenum + 1,
                                 i |-> loader.i + 1,
                                 allowN |-> AllowNAfterRow]
                   /\ IF loader.i = game_N * game_N
                      THEN /\ out' = Append(out, "board")
                           /\ pc' = "save"
                      ELSE UNCHANGED <<pc, out>>
    /\ UNCHANGED <<game_N, inits>>
    /\ UNCHANGED main_vars
    /\ UNCHANGED <<order, passes>>

SaveBoard ==
    /\ pc = "save"
    /\ saved_board' = board
    /\ pc' = "verify"
    /\ UNCHANGED <<board, stats, out, first_time, no_candidates, i, j, stack,
                   piece_to_place>>
    /\ UNCHANGED loader_vars
    /\ UNCHANGED <<order, passes>>


VerifySetup ==
    /\ pc = "verify"
    /\ IF ~ verify_solution(board, FALSE)
       THEN /\ out' = Append(out, "INVALID SETUP")
            /\ pc' = "exit"
       ELSE /\ out' = out
            /\ pc' = "preprocess"
    /\ UNCHANGED <<board, saved_board, stats, first_time, no_candidates, i, j,
                   stack, piece_to_place>>
    /\ UNCHANGED loader_vars
    /\ UNCHANGED <<order, passes>>


PreprocessLoop ==
    /\ pc = "preprocess"
    /\ LET r == preprocess_pass(board)
           s1 == IF first_time
                 THEN [stats EXCEPT !.sum_num_candidates_originally =
                          compute_candidate_stats(find_candidates(board))]
                 ELSE stats
       IN  /\ board' = r.board
           /\ stats' =
                CASE r.frozen_by = "only_one" ->
                       [s1 EXCEPT !.num_frozen_as_only_candidate = @ + r.count]
                  [] r.frozen_by = "row" ->
                       [s1 EXCEPT !.num_frozen_by_row_optimization = @ + 1]
                  [] r.frozen_by = "column" ->
                       [s1 EXCEPT !.num_frozen_by_column_optimization = @ + 1]
                  [] r.frozen_by = "subsquare" ->
                       [s1 EXCEPT !.num_frozen_by_subsquare_optimization = @ + 1]
                  [] OTHER -> s1
           /\ no_candidates' = (r.result = "no_candidates")
           /\ first_time' = FALSE
           /\ pc' = IF r.result = "continue" THEN "preprocess"
                    ELSE "preprocessed"
    /\ UNCHANGED <<saved_board, out, i, j, stack, piece_to_place>>
    /\ UNCHANGED loader_vars
    /\ passes' = passes + 1
    /\ UNCHANGED order


\* the end of preprocess_board and the test main makes of its result
PreprocessReturn ==
    /\ pc = "preprocessed"
    /\ stats' = [stats EXCEPT !.sum_num_candidates_after_optimization =
                                 compute_candidate_stats(board)]
    /\ IF no_candidates
       THEN /\ out' = out \o << "board", "Can't get started",
                                "NO SOLUTIONS EXISTS" >>
            /\ pc' = "exit"
            /\ UNCHANGED <<i, j, stack, piece_to_place>>
       ELSE /\ out' = out
            /\ pc' = "search"
            /\ i' = 1
            /\ j' = 1
            /\ stack' = << >>
            /\ piece_to_place' = 0
    /\ UNCHANGED <<board, saved_board, first_time, no_candidates>>
    /\ UNCHANGED loader_vars
    /\ UNCHANGED <<order, passes>>


\* if ( p->frozen ) continue ;
SearchSkip ==
    /\ pc = "search"
    /\ i <= N2
    /\ board[<<i, j>>].frozen
    /\ i' = NextI(i, j)
    /\ j' = NextJ(i, j)
    /\ UNCHANGED <<pc, board, saved_board, stats, out, first_time,
                   no_candidates, stack, piece_to_place>>
    /\ UNCHANGED loader_vars
    /\ UNCHANGED <<order, passes>>


SearchPlace ==
    /\ pc = "search"
    /\ i <= N2
    /\ ~ board[<<i, j>>].frozen
    /\ LET p == board[<<i, j>>]
           k == NextPiece(TopMask(p), piece_to_place)
       IN  /\ k # 0
           /\ IF update_neighbors_asserts(board, <<i, j>>, FALSE)
                 /\ Len(stack) < num_squares
              THEN /\ board' = update_neighbors(
                                  [board EXCEPT ![<<i, j>>].cur_value = k],
                                  <<i, j>>, k, FALSE)
                   /\ stack' = push(stack, i, j)
                   /\ piece_to_place' = 0
                   /\ i' = NextI(i, j)
                   /\ j' = NextJ(i, j)
                   /\ UNCHANGED <<pc, out>>
              ELSE /\ pc' = AfterAssertFailure
                   /\ out' = Append(out, "Assertion failed")
                   /\ UNCHANGED <<board, stack, piece_to_place, i, j>>
    /\ UNCHANGED <<saved_board, stats, first_time, no_candidates>>
    /\ UNCHANGED loader_vars
    /\ UNCHANGED <<order, passes>>


SearchUnstack ==
    /\ pc = "search"
    /\ i <= N2
    /\ ~ board[<<i, j>>].frozen
    /\ NextPiece(TopMask(board[<<i, j>>]), piece_to_place) = 0
    /\ Len(stack) > 0
    /\ LET c == stack[Len(stack)]
       IN  IF update_neighbors_asserts(board, c, TRUE)
           THEN /\ stats' = [stats EXCEPT !.num_unstackings = @ + 1]
                /\ i' = c[1]
                /\ j' = c[2]
                /\ stack' = SubSeq(stack, 1, Len(stack) - 1)
                /\ piece_to_place' = ResumeThreshold(board[c])
                /\ board' = [update_neighbors(board, c, board[c].cur_value,
                                              TRUE)
                               EXCEPT ![c].cur_value = 0]
                /\ UNCHANGED <<pc, out>>
           ELSE /\ pc' = AfterAssertFailure
                /\ out' = Append(out, "Assertion failed")
                /\ stats' = [stats EXCEPT !.num_unstackings = @ + 1]
                /\ UNCHANGED <<board, stack, piece_to_place, i, j>>
    /\ UNCHANGED <<saved_board, first_time, no_candidates>>
    /\ UNCHANGED loader_vars
    /\ UNCHANGED <<order, passes>>


\* assert ( top >= 0 ) fails: the search is exhausted
SearchExhausted ==
    /\ pc = "search"
    /\ i <= N2
    /\ ~ board[<<i, j>>].frozen
    /\ NextPiece(TopMask(board[<<i, j>>]), piece_to_place) = 0
    /\ Len(stack) = 0
    /\ pc' = AfterAssertFailure
    /\ out' = Append(out, "Assertion `top >= 0' failed")
    /\ UNCHANGED <<board, saved_board, stats, first_time, no_candidates, i, j,
                   stack, piece_to_place>>
    /\ UNCHANGED loader_vars
    /\ UNCHANGED <<order, passes>>


\* the row loop ends: find_solution returns
SearchReturn ==
    /\ pc = "search"
    /\ i > N2
    /\ pc' = "postverify"
    /\ UNCHANGED <<board, saved_board, stats, out, first_time, no_candidates,
                   i, j, stack, piece_to_place>>
    /\ UNCHANGED loader_vars
    /\ UNCHANGED <<order, passes>>


\* print_board, the two verifications and print_statistics
VerifyResult ==
    /\ pc = "postverify"
    /\ out' = out \o << "board" >> \o
              (IF ~ verify_solution_to_our_problem(board, saved_board)
               THEN << "NOT A SOLUTION TO THE ORIGINAL PROBLEM" >>
               ELSE IF ~ verify_solution(board, TRUE)
               THEN << "INVALID SOLUTION" >>
               ELSE << >>) \o << "statistics" >>
    /\ pc' = "exit"
    /\ UNCHANGED <<board, saved_board, stats, first_time, no_candidates, i, j,
                   stack, piece_to_place>>
    /\ UNCHANGED loader_vars
    /\ UNCHANGED <<order, passes>>


Next ==
    \/ GetLineEOF
    \/ GetLineSkip
    \/ GetLineDirective
    \/ LoadRow
    \/ SaveBoard
    \/ VerifySetup
    \/ PreprocessLoop
    \/ PreprocessReturn
    \/ SearchSkip
    \/ SearchPlace
    \/ SearchUnstack
    \/ SearchExhausted
    \/ SearchReturn
    \/ VerifyResult

Spec == Init /\ [][Next]_vars

\* an iteration of the loop of preprocess_board, told by its count
PreprocessPass == pc = "preprocess" /\ passes' = passes + 1

\* the other steps of main from save_board on
SolveStep ==
    \/ SaveBoard
    \/ VerifySetup
    \/ PreprocessReturn
    \/ SearchSkip
    \/ SearchPlace
    \/ SearchUnstack
    \/ SearchExhausted
    \/ SearchReturn
    \/ VerifyResult

\* the program is sequential: once the board is loaded it takes its next
\* step as long as it has one
FairSpec ==
    Init /\ [][Next]_vars /\ WF_vars(SolveStep) /\ WF_passes(PreprocessPass)

-----------------------------------------------------------------------------
(* preprocess_board as a function of the loaded board and of the order of   *)
(* its four calls                                                           *)

\* the board load_file leaves for a grid
BoardOf(grid) ==
    Tabulate([c \in Cells |->
                LoadedSquare(InitSquare, grid[c], grid[c] # 0)])

\* the files preprocess_board is applied to: their boards pass the partial
\* verification of main
OrderFiles ==
    {f \in {g \in PlainFiles : g.p \in {1, 2, 3}}
            \cup {[p |-> Len(Puzzles), H |-> {}, v |-> 1]} :
        verify_solution(BoardOf(InputGrid(f.p, f.H)), FALSE)}

\* main has loaded, saved and verified the board of a file
OrderInit ==
    /\ order \in Orders
    /\ infile \in OrderFiles
    /\ pc = "preprocess"
    /\ board = BoardOf(InputGrid(infile.p, infile.H))
    /\ saved_board = board
    /\ stats = [InitStats EXCEPT !.num_occupied_squares_originally =
                    Cardinality(FrozenCells(board))]
    /\ out = << "board" >>
    /\ first_time = TRUE
    /\ no_candidates = FALSE
    /\ i = 0
    /\ j = 0
    /\ stack = << >>
    /\ piece_to_place = 0
    /\ loader = [linenum |-> N2, i |-> N2 + 1, allowN |-> AllowNAfterRow]
    /\ game_N = N
    /\ inits = 1
    /\ passes = 0

\* one iteration of the while loop of preprocess_board, its four calls made
\* in the given order
OrderedLoop ==
    /\ pc = "preprocess"
    /\ LET r == preprocess_pass_in(order, board)
           s1 == IF first_time
                 THEN [stats EXCEPT !.sum_num_candidates_originally =
                          compute_candidate_stats(find_candidates(board))]
                 ELSE stats
       IN  /\ board' = r.board
           /\ stats' =
                CASE r.frozen_by = "only_one" ->
                       [s1 EXCEPT !.num_frozen_as_only_candidate = @ + r.count]
                  [] r.frozen_by = "row" ->
                       [s1 EXCEPT !.num_frozen_by_row_optimization = @ + 1]
                  [] r.frozen_by = "column" ->
                       [s1 EXCEPT !.num_frozen_by_column_optimization = @ + 1]
                  [] r.frozen_by = "subsquare" ->
                       [s1 EXCEPT !.num_frozen_by_subsquare_optimization = @ + 1]
                  [] OTHER -> s1
           /\ no_candidates' = (r.result = "no_candidates")
           /\ first_time' = FALSE
           /\ pc' = IF r.result = "continue" THEN "preprocess"
                    ELSE "preprocessed"
    /\ UNCHANGED <<saved_board, out, i, j, stack, piece_to_place>>
    /\ UNCHANGED loader_vars
    /\ passes' = passes + 1
    /\ UNCHANGED order

OrderNext ==
    \/ OrderedLoop
    \/ PreprocessReturn

OrderSpec == OrderInit /\ [][OrderNext]_vars

-----------------------------------------------------------------------------
(* main from save_board on, for boards with few clues                       *)

\* two grids with few clues: one clue in the first square; and a first row
\* whose three open squares share two candidates
SparseGrids ==
    << [c \in Cells |-> IF c = <<1, 1>> THEN 1 ELSE 0],
       [c \in Cells |-> IF c[1] = 1 /\ c[2] > N THEN c[2]
                        ELSE IF c = <<2, 1>> THEN N ELSE 0] >>

\* load_file has loaded the board of a sparse grid and main has printed it
SparseInit ==
    /\ \E g \in 1..Len(SparseGrids) :
          /\ infile = [p |-> Len(Puzzles) + g, H |-> {}, v |-> 1]
          /\ board = BoardOf(SparseGrids[g])
    /\ pc = "save"
    /\ saved_board = [c \in Cells |-> ZeroSquare]
    /\ stats = [InitStats EXCEPT !.num_occupied_squares_originally =
                    Cardinality(FrozenCells(board))]
    /\ out = << "board" >>
    /\ first_time = TRUE
    /\ no_candidates = FALSE
    /\ i = 0
    /\ j = 0
    /\ stack = << >>
    /\ piece_to_place = 0
    /\ loader = [linenum |-> N2, i |-> N2 + 1, allowN |-> AllowNAfterRow]
    /\ game_N = N
    /\ inits = 1
    /\ order = SourceOrder
    /\ passes = 0

SparseNext ==
    \/ PreprocessLoop
    \/ SolveStep

SparseSpec == SparseInit /\ [][SparseNext]_vars

-----------------------------------------------------------------------------
(* Vocabulary of the properties, defined on grids of values and            *)
(* independently of the neighbor lists and of verify_solution              *)

ValuesOf(b) == Tabulate([c \in Cells |-> b[c].cur_value])

SameSubSquare(a, b) ==
    /\ (a[1] - 1) \div N = (b[1] - 1) \div N
    /\ (a[2] - 1) \div N = (b[2] - 1) \div N

\* a and b are distinct squares of one row, one column or one subsquare
SameUnit(a, b) ==
    a # b /\ (a[1] = b[1] \/ a[2] = b[2] \/ SameSubSquare(a, b))

Peers == Tabulate([c \in Cells |-> {n \in Cells : SameUnit(c, n)}])

\* no value occurs twice in a row, a column or a subsquare
NoDuplicate(g) ==
    \A c \in Cells : g[c] # 0 => \A n \in Peers[c] : g[n] # g[c]

\* every row, column and subsquare holds each value exactly once
IsFullSolution(g) ==
    /\ \A c \in Cells : g[c] \in Values
    /\ NoDuplicate(g)

CellAt(n) == << ((n - 1) \div N2) + 1, ((n - 1) % N2) + 1 >>

\* the full solutions that extend grid g, blank squares filled in row-major order
RECURSIVE Extend(_, _)
Extend(g, n) ==
    IF n > num_squares THEN {g}
    ELSE IF g[CellAt(n)] # 0 THEN Extend(g, n + 1)
    ELSE LET c == CellAt(n)
             legal == {v \in Values : \A p \in Peers[c] : g[p] # v}
         IN  UNION {Extend([g EXCEPT ![c] = v], n + 1) : v \in legal}

Solutions(g) == IF NoDuplicate(g) THEN Extend(g, 1) ELSE {}

\* s comes before t when the grids are read in row-major order
LexLess(s, t) ==
    \E n \in 1..num_squares :
        /\ s[CellAt(n)] < t[CellAt(n)]
        /\ \A m \in 1..(n - 1) : s[CellAt(m)] = t[CellAt(m)]

Clues == ValuesOf(saved_board)

\* save_board has run: the file was loaded without an error
BoardIsSaved == \E c \in Cells : saved_board[c] # ZeroSquare

FrozenValues(b) ==
    Tabulate([c \in Cells |-> IF b[c].frozen THEN b[c].cur_value ELSE 0])

PreprocessorFreezes ==
    stats.num_frozen_as_only_candidate + stats.num_frozen_by_row_optimization
    + stats.num_frozen_by_column_optimization
    + stats.num_frozen_by_subsquare_optimization

\* the scan is at an unfrozen square with no candidate above the threshold
DeadEnd ==
    /\ pc = "search"
    /\ i <= N2
    /\ ~ board[<<i, j>>].frozen
    /\ \A v \in Values : v > piece_to_place => v \notin TopMask(board[<<i, j>>])

Occurrences(seq, x) == Cardinality({k \in 1..Len(seq) : seq[k] = x})

-----------------------------------------------------------------------------
\* C1: during the search, after every completed assign-and-propagate step and
\* every completed undo-and-propagate step, for every unfrozen square c and
\* every value v, v is in c's top-of-stack candidate mask if and only if no
\* square sharing a row, column or subsquare with c holds v.
C1_TopMaskIsExact ==
    pc \in {"search", "postverify"} =>
        \A c \in Cells :
            ~ board[c].frozen =>
                \A v \in Values :
                    v \in TopMask(board[c])
                        <=> \A n \in Peers[c] : board[n].cur_value # v

\* the search has assigned squares, has backtracked, and holds stacked masks
C1_Witness ==
    /\ pc = "search"
    /\ Len(stack) > 0
    /\ stats.num_unstackings > 0
    /\ \E c \in Cells : ~ board[c].frozen /\ Len(board[c].candidate) > 2

-----------------------------------------------------------------------------
\* C2: for every loaded board that passes partial verification and that the
\* preprocessor reports solvable, whenever the search finishes (the scan
\* passes the last square) every row, column and subsquare of the board
\* holds each value 1..N2 exactly once.
C2_FinishedBoardIsFullSolution ==
    pc = "postverify" => IsFullSolution(ValuesOf(board))

-----------------------------------------------------------------------------
\* C3: for every clue set that passes partial verification and has exactly
\* one full solution, the run neither reports unsolvable nor exhausts the
\* search, and the board it ends with is that solution.
C3_UniqueSolutionIsFound ==
    (pc \in {"postverify", "exit", "aborted"} /\ BoardIsSaved) =>
        (Cardinality(Solutions(Clues)) = 1 =>
            /\ pc # "aborted"
            /\ ~ no_candidates
            /\ ValuesOf(board) \in Solutions(Clues))

\* a uniquely solvable puzzle was solved with preprocessor freezes and
\* backtracking
C3_Witness ==
    /\ pc = "exit"
    /\ stats.num_unstackings > 0
    /\ PreprocessorFreezes > 0
    /\ Cardinality(Solutions(Clues)) = 1

-----------------------------------------------------------------------------
\* C4: every square that held a clue in the snapshot taken after load holds
\* the same value after preprocessing and search, so
\* verify_solution_to_our_problem succeeds on every board the search produces.
C4_CluesArePreserved ==
    /\ pc \notin {"load", "save"} =>
          \A c \in Cells :
              saved_board[c].cur_value # 0 =>
                  board[c].cur_value = saved_board[c].cur_value
    /\ pc = "postverify" => verify_solution_to_our_problem(board, saved_board)

\* a board with clues went through row freezes and a search that backtracked
C4_Witness ==
    /\ pc = "postverify"
    /\ \E c \in Cells : saved_board[c].cur_value # 0
    /\ stats.num_frozen_by_row_optimization > 0
    /\ stats.num_unstackings > 0

-----------------------------------------------------------------------------
\* C5: when the loaded puzzle has more than one full solution, the board the
\* search ends with is the first solution in row-major order with values
\* ascending.
C5_FirstSolutionInScanOrder ==
    pc = "postverify" =>
        (Cardinality(Solutions(Clues)) > 1 =>
            /\ ValuesOf(board) \in Solutions(Clues)
            /\ \A t \in Solutions(Clues) \ {ValuesOf(board)} :
                   LexLess(ValuesOf(board), t))

\* a puzzle with several solutions was solved by a search that backtracked
C5_Witness ==
    /\ pc = "postverify"
    /\ stats.num_unstackings > 0
    /\ Cardinality(Solutions(Clues)) > 2

-----------------------------------------------------------------------------
\* C6: the search is exhausted (a dead end with an empty move stack, the
\* failure of assert top >= 0) only if no full assignment keeps the value of
\* every frozen square and has no value twice in a row, column or subsquare;
\* hence whenever such an assignment exists the search is not exhausted.
C6_ExhaustedOnlyIfNoSolution ==
    pc = "aborted" => Solutions(FrozenValues(board)) = {}

\* the search was exhausted after it had placed and unstacked pieces
C6_Witness ==
    /\ pc = "aborted"
    /\ out[Len(out)] = "Assertion `top >= 0' failed"
    /\ stats.num_unstackings > 0

-----------------------------------------------------------------------------
\* C7: when the search is exhausted the run stops there with a fatal abort:
\* the board is not printed as a solution, neither post-solve verification
\* nor the statistics report runs, and nothing happens afterwards.
C7_ExhaustionAborts ==
    [][ /\ (DeadEnd /\ Len(stack) = 0) =>
              /\ pc' = "aborted"
              /\ board' = board
              /\ Occurrences(out', "board") = 1
              /\ Occurrences(out', "statistics") = 0
              /\ Occurrences(out', "INVALID SOLUTION") = 0
              /\ Occurrences(out', "NOT A SOLUTION TO THE ORIGINAL PROBLEM") = 0
        /\ pc # "aborted" ]_vars

\* the run has aborted on the exhausted search
C7_Witness ==
    /\ pc = "aborted"
    /\ Len(stack) = 0
    /\ out = << "board", "Assertion `top >= 0' failed" >>

-----------------------------------------------------------------------------
\* C8: if the loaded clues hold the same value twice in a row, column or
\* subsquare, the run is reported as invalid setup and ends with no
\* preprocessor step and no search step: no square's value, frozen flag or
\* candidate stack is changed after load.
C8_InvalidSetupStopsTheRun ==
    (pc \notin {"load", "save", "verify"} /\ ~ NoDuplicate(Clues)) =>
        /\ pc = "exit"
        /\ out = << "board", "INVALID SETUP" >>
        /\ board = saved_board
        /\ first_time
        /\ PreprocessorFreezes = 0
        /\ stats.num_unstackings = 0

\* a run on clues with a duplicate has ended
C8_Witness ==
    /\ pc = "exit"
    /\ ~ NoDuplicate(Clues)
    /\ \E c \in Cells : ~ board[c].frozen

-----------------------------------------------------------------------------
\* C9: if at a recomputation of the base candidates some unfrozen square has
\* an empty candidate mask (every value is held by one of its neighbors),
\* the preprocessor returns unsolvable without applying any further rule,
\* and the search is never invoked for that puzzle.
DeadSquare(b) ==
    \E c \in Cells :
        /\ ~ b[c].frozen
        /\ \A v \in Values : \E n \in Peers[c] : b[n].cur_value = v

C9_DeadSquareMeansUnsolvable ==
    [][ /\ (pc = "preprocess" /\ DeadSquare(board)) =>
              /\ pc' = "preprocessed"
              /\ no_candidates'
              /\ \A c \in Cells :
                     /\ board'[c].cur_value = board[c].cur_value
                     /\ board'[c].frozen = board[c].frozen
        /\ (pc = "preprocessed" /\ no_candidates) =>
              /\ pc' = "exit"
              /\ out'[Len(out')] = "NO SOLUTIONS EXISTS"
              /\ board' = board
        /\ pc' \in {"search", "postverify", "aborted"} => ~ no_candidates'
        /\ pc # "exit" ]_vars

\* unsolvable was reported for a dead square that appeared after a freeze
C9_Witness ==
    /\ pc = "exit"
    /\ no_candidates
    /\ PreprocessorFreezes > 0
    /\ DeadSquare(board)

-----------------------------------------------------------------------------
\* C10: preprocessing is idempotent: a second run of the preprocessor right
\* after the first freezes no further square, leaves every square's value,
\* frozen flag, base candidate mask and base candidate count unchanged, and
\* returns the same status.
C10_PreprocessorIsIdempotent ==
    pc = "preprocessed" =>
        /\ preprocess_board(board).board = board
        /\ preprocess_board(board).retval = ~ no_candidates

\* the first run has returned solvable after freezes by every rule
C10_Witness ==
    /\ pc = "preprocessed"
    /\ ~ no_candidates
    /\ stats.num_frozen_as_only_candidate > 0
    /\ stats.num_frozen_by_row_optimization > 0
    /\ stats.num_frozen_by_column_optimization > 0
    /\ stats.num_frozen_by_subsquare_optimization > 0
    /\ \E c \in Cells : ~ board[c].frozen

-----------------------------------------------------------------------------
\* C11: for every unfrozen square and every value v, making v unavailable to
\* the square's neighbors (update_neighbors with make_avail false) stacks one
\* mask without v on every unfrozen neighbor, and making it available again
\* (make_avail true) leaves every unfrozen neighbor with the top mask and the
\* stack depth it had before.
RoundTrip(b, c, v) ==
    update_neighbors(update_neighbors(b, c, v, FALSE), c, v, TRUE)

C11_RestrictReleaseRoundTrip ==
    pc = "search" =>
        \A c \in {x \in Cells : ~ board[x].frozen} : \A v \in Values :
            \A q \in {x \in NeighborSet[c] : ~ board[x].frozen} :
                LET r == update_neighbors(board, c, v, FALSE)[q]
                    t == RoundTrip(board, c, v)[q]
                IN  /\ Len(r.candidate) = Len(board[q].candidate) + 1
                    /\ TopMask(r) = TopMask(board[q]) \ {v}
                    /\ Len(t.candidate) = Len(board[q].candidate)
                    /\ TopMask(t) = TopMask(board[q])
                    /\ t = board[q]

\* the search holds placed pieces, and a square has an unfrozen neighbor
\* whose stacked top mask still holds a value that the restriction removes
C11_Witness ==
    /\ pc = "search"
    /\ Len(stack) > 1
    /\ \E c \in Cells : \E q \in NeighborSet[c] : \E v \in Values :
          /\ ~ board[c].frozen
          /\ ~ board[q].frozen
          /\ Len(board[q].candidate) > 1
          /\ v \in TopMask(board[q])
          /\ RoundTrip(board, c, v)[q].candidate = board[q].candidate

-----------------------------------------------------------------------------
\* C12: freezing is permanent: a square that is frozen, by load or by any
\* rule of the preprocessor, stays frozen with the same value (and the same
\* empty candidate stack) in every later step of the preprocessor, of the
\* search and of backtracking.
C12_FreezingIsPermanent ==
    [][ \A c \in Cells :
            board[c].frozen =>
                /\ board'[c].frozen
                /\ board'[c].cur_value = board[c].cur_value
                /\ board'[c] = board[c] ]_vars

\* the search has backtracked on a board that holds clues and squares frozen
\* by the preprocessor, all of them still as they were frozen
C12_Witness ==
    /\ pc = "search"
    /\ stats.num_unstackings > 0
    /\ \E c \in Cells : board[c].frozen /\ saved_board[c].frozen
    /\ \E c \in Cells : board[c].frozen /\ ~ saved_board[c].frozen
    /\ \E c \in Cells : ~ board[c].frozen

-----------------------------------------------------------------------------
\* C14: after init_board ( G, n ), for every size n the program accepts, the
\* neighbor list of every square holds exactly the other squares of its row,
\* its column and its subsquare, each once and never the square itself, so
\* it has 3*n^2 - 2*n - 1 entries, and A lists B iff B lists A; so are the
\* lists that a directive of the file rebuilds, and in every state of load,
\* preprocessing and search the lists in use are those lists.
BuiltListsAreExact(n) ==
    LET cells == (1..(n * n)) \X (1..(n * n))
        same(a, b) ==
            /\ a # b
            /\ \/ a[1] = b[1]
               \/ a[2] = b[2]
               \/ /\ (a[1] - 1) \div n = (b[1] - 1) \div n
                  /\ (a[2] - 1) \div n = (b[2] - 1) \div n
        listed == Tabulate([c \in cells |->
                     LET L == NeighborList(n, c[1], c[2])
                     IN  {L[k] : k \in 1..Len(L)}])
    IN  \A c \in cells :
            /\ Len(NeighborList(n, c[1], c[2])) = 3 * n * n - 2 * n - 1
            /\ Cardinality(listed[c]) = 3 * n * n - 2 * n - 1
            /\ c \notin listed[c]
            /\ listed[c] = {x \in cells : same(c, x)}
            /\ \A q \in listed[c] : c \in listed[q]

C14_NeighborListsAreExact ==
    /\ (pc = "load" /\ loader.allowN) =>
          /\ game_N \in N..MAX_N
          /\ BuiltListsAreExact(game_N)
    /\ (pc = "load" /\ loader.linenum = 0) =>
          \A c \in Cells :
              /\ neighbor[c] = NeighborList(N, c[1], c[2])
              /\ \A n \in Cells : n \in NeighborSet[c] <=> c \in NeighborSet[n]
    /\ pc \notin {"load", "exit"} => game_N = N
    /\ NeighborSet = Peers
    /\ \A c \in Cells : Len(neighbor[c]) = num_neighbors

\* the search has placed a piece and stacked a mask on a neighbor found
\* through the lists, which still are the lists init_board built
C14_Witness ==
    /\ pc = "search"
    /\ Len(stack) > 0
    /\ \E q \in NeighborSet[stack[Len(stack)]] :
          /\ ~ board[q].frozen
          /\ Len(board[q].candidate) > 1
          /\ SameUnit(q, stack[Len(stack)])

-----------------------------------------------------------------------------
\* C13: in every state, after load and during preprocessing, search and
\* backtracking, the value of every square of the board and of the saved
\* board lies in 0..N2, which is what the asserts of verify_solution test.
C13_ValuesAreInRange ==
    /\ \A c \in DOMAIN board :
          board[c].cur_value \in 0..(game_N * game_N)
    /\ \A c \in DOMAIN saved_board :
          saved_board[c].cur_value \in 0..(game_N * game_N)

\* the search has backtracked on a board that holds blank squares and a
\* placed piece N2
C13_Witness ==
    /\ pc = "search"
    /\ stats.num_unstackings > 0
    /\ \E c \in Cells : ~ board[c].frozen /\ board[c].cur_value = N2
    /\ \E c \in Cells : board[c].cur_value = 0

-----------------------------------------------------------------------------
\* C15: while load_file reads the row of a data line, a character that is
\* neither '-' nor in the alphabet table, or that maps to more than N2, stops
\* the program there with the format error: the squares before it in the
\* row are loaded, no later square is, and neither verification nor
\* preprocessing nor search takes place; nothing follows the exit.
RECURSIVE Tokens(_)
Tokens(line) ==
    IF Len(line) = 0 THEN << >>
    ELSE IF isspace(line[1]) THEN Tokens(SubSeq(line, 2, Len(line)))
    ELSE << line[1] >> \o Tokens(SubSeq(line, 2, Len(line)))

\* the pieces of the alphabet for a board of side n2
Alphabet(n2) == {AlphabetTable[k] : k \in 1..n2}

\* the columns of the row whose token load_file must refuse
BadColumns(line, n2) ==
    {k \in 1..n2 : k <= Len(Tokens(line))
                   /\ Tokens(line)[k] \notin Alphabet(n2) \cup {"-"}}

ReadsDataLine ==
    /\ pc = "load"
    /\ ~ AtEndOfFile
    /\ Tokens(NextLine) # << >>
    /\ ~ IsComment(NextLine)

C15_BadTokenIsFatal ==
    [][ /\ (ReadsDataLine /\ BadColumns(NextLine, game_N * game_N) # {}) =>
              LET k == Min(BadColumns(NextLine, game_N * game_N))
              IN  /\ pc' = "exit"
                  /\ out' = Append(out, "is not '-' nor a valid character")
                  /\ \A c \in DOMAIN board :
                        IF c[1] = loader.i /\ c[2] < k
                        THEN map_int_to_alphabet(board'[c].cur_value)
                                = Tokens(NextLine)[c[2]]
                        ELSE board'[c] = board[c]
                  /\ saved_board' = saved_board
                  /\ first_time' /\ stack' = << >>
                  /\ PreprocessorFreezes' = 0
        /\ pc # "exit" ]_vars

\* the program has stopped on a character outside the table, and on a
\* piece of the table that is too large for the board
C15_Witness ==
    /\ pc = "exit"
    /\ out = << "is not '-' nor a valid character" >>
    /\ loader.i = 3
    /\ board[<<3, 4>>].frozen
    /\ ~ board[<<3, 5>>].frozen
    /\ Tokens(FileText(infile)[loader.linenum])[5] = "?"

-----------------------------------------------------------------------------
\* a line that begins with //N=
IsDirectiveLine(line) ==
    Len(line) >= 4 /\ SubSeq(line, 1, 4) = << "/", "/", "N", "=" >>

IsDataLine(line) == Tokens(line) # << >> /\ ~ IsComment(line)

\* a data line is among the lines read so far
SeenDataLine ==
    \E k \in 1..loader.linenum :
        k <= Len(FileText(infile)) /\ IsDataLine(FileText(infile)[k])

ReadsDirectiveLine ==
    pc = "load" /\ ~ AtEndOfFile /\ IsDirectiveLine(NextLine)

\* C16 (as claimed): during load a directive //N=d is honored only once and
\* only before the first data line: init_board is called for a directive at
\* most one time, and a //N=d line after the first data line is read as an
\* ordinary comment that leaves N and the loaded rows unchanged.
C16_DirectiveHonoredOnce ==
    [][ /\ inits' # inits => inits = 1
        /\ (ReadsDirectiveLine /\ SeenDataLine) =>
              /\ game_N' = game_N
              /\ board' = board
              /\ inits' = inits ]_vars

\* C16 (amended): during load a directive //N=d is honored only before the
\* first data line: every line //N=d with 3 <= d <= MAX_N read before the
\* first data line calls init_board ( G, d ), so that several such lines
\* reinitialize the board several times, and a //N=d line after the first
\* data line is read as an ordinary comment that leaves N, the loaded rows
\* and everything but the line number unchanged.
C16_DirectiveOnlyBeforeFirstDataLine ==
    [][ /\ (ReadsDirectiveLine /\ SeenDataLine) =>
              /\ game_N' = game_N
              /\ board' = board
              /\ inits' = inits
              /\ stats' = stats
              /\ pc' = pc /\ out' = out
              /\ loader' = [loader EXCEPT !.linenum = @ + 1]
        /\ (ReadsDirectiveLine /\ ~ SeenDataLine
              /\ atoi(NextLine, 5) \in 3..MAX_N) =>
              /\ game_N' = atoi(NextLine, 5)
              /\ inits' = inits + 1
              /\ board' = init_board(game_N')
              /\ pc' = pc
        /\ (inits' # inits \/ game_N' # game_N) =>
              ReadsDirectiveLine /\ ~ SeenDataLine ]_vars

\* two directives were honored before the first data line, and a directive
\* after it was read as a comment: the file was loaded with the size of
\* the second directive
C16_Witness ==
    /\ pc = "save"
    /\ inits = 3
    /\ game_N = N
    /\ \E k \in 1..loader.linenum :
          /\ IsDirectiveLine(FileText(infile)[k])
          /\ atoi(FileText(infile)[k], 5) \in 3..MAX_N
          /\ atoi(FileText(infile)[k], 5) # game_N
          /\ \E m \in 1..(k - 1) : IsDataLine(FileText(infile)[m])

-----------------------------------------------------------------------------
\* C17: the preprocessor never batches freezes: one iteration of the loop of
\* preprocess_board, which recomputes the base candidates of every unfrozen
\* square once, freezes at most one square before the loop restarts.
C17_OneFreezePerIteration ==
    [][ pc = "preprocess" =>
          Cardinality(FrozenCells(board')) <=
              Cardinality(FrozenCells(board)) + 1 ]_vars

-----------------------------------------------------------------------------
\* for every unfrozen square of b, v is in the top mask iff no square that
\* shares a row, column or subsquare with it holds v
MasksAreExact(b) ==
    \A c \in Cells :
        ~ b[c].frozen =>
            /\ b[c].candidate # << >>
            /\ \A v \in Values :
                  v \in TopMask(b[c])
                      <=> \A n \in Peers[c] : b[n].cur_value # v

\* C18 (as claimed): from the first computation of the base candidates
\* onward, after every mutation of the board, every single freeze of the
\* preprocessor included, for every unfrozen square v is in its top mask if
\* and only if no neighbor of the square holds v.
C18_MasksExactAfterEveryMutation ==
    (pc \in {"preprocess", "preprocessed", "search", "postverify"}
        /\ ~ first_time) => MasksAreExact(board)

\* C18 (amended): from the first computation of the base candidates onward,
\* after every recomputation of the base candidates by the preprocessor (the
\* board its rules are tried on, and the board it returns) and after every
\* assign and undo of the search, for every unfrozen square v is in its top
\* mask if and only if no neighbor of the square holds v; a freeze of the
\* preprocessor leaves the masks of the neighbors as they were until the
\* next recomputation.
C18_MasksExactAfterRecomputation ==
    /\ pc = "preprocess" => MasksAreExact(find_candidates(board))
    /\ (pc \in {"preprocessed", "search", "postverify"}) =>
          MasksAreExact(board)

\* the preprocessor has frozen a square and is about to recompute: an
\* unfrozen neighbor of a frozen square still has the frozen value in its mask
C18_Witness ==
    /\ pc = "preprocess"
    /\ ~ first_time
    /\ PreprocessorFreezes > 0
    /\ \E c \in Cells :
          /\ board[c].frozen
          /\ saved_board[c].cur_value = 0
          /\ \E n \in Peers[c] :
                /\ ~ board[n].frozen
                /\ board[c].cur_value \in TopMask(board[n])

-----------------------------------------------------------------------------
\* C19: every freeze of the preprocessor is sound: for every full solution S
\* of the loaded clues, each square frozen by the single-candidate, row,
\* column or subsquare rule holds the value S has at that square, so that
\* preprocessing removes no solution.
C19_PreprocessorFreezesAreSound ==
    (pc \in {"preprocess", "preprocessed"}) =>
        \A S \in Solutions(Clues) :
            \A c \in Cells :
                board[c].frozen => board[c].cur_value = S[c]

\* clues with more than one full solution, on which the single-candidate
\* rule and one of the unit rules have frozen squares and left others open
C19_Witness ==
    /\ pc = "preprocessed"
    /\ Cardinality(Solutions(Clues)) > 1
    /\ stats.num_frozen_as_only_candidate > 0
    /\ stats.num_frozen_by_row_optimization
         + stats.num_frozen_by_column_optimization
         + stats.num_frozen_by_subsquare_optimization > 0
    /\ \E c \in Cells : ~ board[c].frozen

-----------------------------------------------------------------------------

-----------------------------------------------------------------------------
\* the frozen squares, their values and the result are those that
\* preprocess_board, with the order of the source, gives for the same clues
SameOutcomeAsSourceOrder ==
    LET s == preprocess_board(saved_board)
    IN  /\ FrozenValues(board) = FrozenValues(s.board)
        /\ (~ no_candidates) = s.retval

\* C20 (as claimed): the frozen squares and values the preprocessor ends
\* with, and its result (solvable or not), do not depend on the order in
\* which the four rules are tried in each iteration.
C20_RuleOrderIsIrrelevant ==
    pc = "preprocessed" => SameOutcomeAsSourceOrder

\* C20 (amended): when the loaded clues have at least one full solution, the
\* frozen squares and values the preprocessor ends with, and its result
\* (solvable), do not depend on the order in which the four rules are tried
\* in each iteration; only the counters of the rules may differ.
C20_RuleOrderIsIrrelevantOnSolvableClues ==
    (pc = "preprocessed" /\ Solutions(Clues) # {}) =>
        /\ SameOutcomeAsSourceOrder
        /\ ~ no_candidates

\* solvable clues preprocessed with the subsquare rule tried first: it has
\* frozen squares that the order of the source freezes as only candidates
C20_Witness ==
    /\ pc = "preprocessed"
    /\ Solutions(Clues) # {}
    /\ order[1] = "subsquare"
    /\ stats.num_frozen_by_subsquare_optimization > 1
    /\ stats.num_frozen_as_only_candidate = 0
    /\ OnlyOneSquares(find_candidates(saved_board)) # {}

-----------------------------------------------------------------------------
\* the base mask of an unfrozen square
BaseMask(sq) == sq.candidate[1]

\* v is in the base mask of another unfrozen square of the row, of the
\* column and of the subsquare of c
SeenElsewhere(b, c, v) ==
    /\ \E d \in Cells : /\ d # c /\ d[1] = c[1]
                        /\ ~ b[d].frozen /\ v \in BaseMask(b[d])
    /\ \E d \in Cells : /\ d # c /\ d[2] = c[2]
                        /\ ~ b[d].frozen /\ v \in BaseMask(b[d])
    /\ \E d \in Cells : /\ d # c /\ SameSubSquare(c, d)
                        /\ ~ b[d].frozen /\ v \in BaseMask(b[d])

\* C21: when the preprocessor returns solvable the board is at a fixed point
\* of the rules: every unfrozen square has at least two base candidates, its
\* base mask is the set of the values that none of its neighbors holds, and
\* in no row, column or subsquare is a value in the base mask of exactly one
\* unfrozen square.
C21_SolvableMeansFixedPoint ==
    (pc = "preprocessed" /\ ~ no_candidates) =>
        \A c \in Cells :
            ~ board[c].frozen =>
                /\ Len(board[c].candidate) = 1
                /\ Cardinality(BaseMask(board[c])) >= 2
                /\ board[c].num_candidates = Cardinality(BaseMask(board[c]))
                /\ BaseMask(board[c]) =
                       {v \in Values :
                           \A n \in Peers[c] : board[n].cur_value # v}
                /\ \A v \in BaseMask(board[c]) : SeenElsewhere(board, c, v)

\* the preprocessor has frozen squares by a unit rule, returns solvable and
\* leaves squares open for the search
C21_Witness ==
    /\ pc = "preprocessed"
    /\ ~ no_candidates
    /\ stats.num_frozen_by_row_optimization
         + stats.num_frozen_by_column_optimization
         + stats.num_frozen_by_subsquare_optimization > 0
    /\ Cardinality({c \in Cells : ~ board[c].frozen}) >= 4

-----------------------------------------------------------------------------
\* the squares that load_file left unfrozen
InitiallyUnfrozen == {c \in Cells : saved_board[c].cur_value = 0}

\* the run is over: load_file or main has called exit, or the search is
\* exhausted; a search that was run ended with the scan past the last square
\* or at a dead end with an empty stack; the loop of the preprocessor made at
\* most one iteration per initially unfrozen square plus one
Terminated ==
    /\ pc \in {"exit", "aborted"}
    /\ pc = "aborted" =>
          /\ i <= N2
          /\ ~ board[<<i, j>>].frozen
          /\ NextPiece(TopMask(board[<<i, j>>]), piece_to_place) = 0
          /\ stack = << >>
    /\ (pc = "exit" /\ Occurrences(out, "statistics") = 1) => i > N2
    /\ passes <= Cardinality(InitiallyUnfrozen) + 1

\* C22: for every loaded board the solve terminates: the run reaches its
\* end, so that no state of the search is visited twice; the loop of the
\* preprocessor has made at most one iteration per initially unfrozen square
\* plus one, and the search has ended with the scan past the last square or
\* at exhaustion.
C22_SolveTerminates == (pc = "save") ~> Terminated

\* a run whose preprocessor made several iterations and whose search
\* backtracked has reached its end
C22_Witness ==
    /\ pc = "exit"
    /\ passes > 2
    /\ stats.num_unstackings > 2
    /\ Occurrences(out, "statistics") = 1

-----------------------------------------------------------------------------
\* the candidates of the square under the scan that are above the threshold
HigherCandidates ==
    {k \in Values : k > piece_to_place /\ k \in TopMask(board[<<i, j>>])}

\* C23: after a dead end the square popped from the move stack is the next
\* square the search visits, its value is cleared to 0 and the threshold is
\* the value it held; the square under the scan is given its smallest
\* candidate above the threshold, or the search backs up further when there
\* is none; after a placement the threshold is 0.
C23_BacktrackResumesAbovePoppedValue ==
    [][ (pc = "search" /\ i <= N2 /\ ~ board[<<i, j>>].frozen) =>
          /\ Len(stack') < Len(stack) =>
                LET c == stack[Len(stack)]
                IN  /\ HigherCandidates = {}
                    /\ stack' = SubSeq(stack, 1, Len(stack) - 1)
                    /\ <<i', j'>> = c
                    /\ board[c].cur_value \in Values
                    /\ board'[c].cur_value = 0
                    /\ ~ board'[c].frozen
                    /\ piece_to_place' = board[c].cur_value
                    /\ pc' = "search"
          /\ HigherCandidates # {} =>
                /\ board'[<<i, j>>].cur_value \in HigherCandidates
                /\ \A k \in HigherCandidates :
                       board'[<<i, j>>].cur_value <= k
                /\ stack' = Append(stack, <<i, j>>)
                /\ piece_to_place' = 0
          /\ HigherCandidates = {} =>
                \/ Len(stack') = Len(stack) - 1
                \/ stack = << >> /\ pc' = "aborted" ]_vars

\* the search has backed up to a square that has a candidate above the value
\* it held
C23_Witness ==
    /\ pc = "search"
    /\ piece_to_place > 0
    /\ board[<<i, j>>].cur_value = 0
    /\ HigherCandidates # {}
    /\ stats.num_unstackings > 1

-----------------------------------------------------------------------------
\* the unfrozen squares that share a row, column or subsquare with c and hold
\* a piece: the squares the search has assigned
AssignedPeers(b, c) ==
    {n \in Peers[c] : ~ b[n].frozen /\ b[n].cur_value # 0}

\* C24: at every point of the search, for every unfrozen square, the number
\* of bitmasks stacked above candidate[0] (topmask) is the number of its
\* unfrozen neighbors that hold a piece.
C24_StackDepthCountsAssignedNeighbors ==
    pc \in {"search", "postverify"} =>
        \A c \in Cells :
            ~ board[c].frozen =>
                Len(board[c].candidate) - 1
                    = Cardinality(AssignedPeers(board, c))

\* the search has backtracked and a square has bitmasks stacked for three or
\* more assigned neighbors
C24_Witness ==
    /\ pc = "search"
    /\ stats.num_unstackings > 0
    /\ \E c \in Cells :
          /\ ~ board[c].frozen
          /\ board[c].cur_value = 0
          /\ Cardinality(AssignedPeers(board, c)) >= 3

-----------------------------------------------------------------------------
\* the position of a square in row-major order
RowMajor(c) == (c[1] - 1) * N2 + c[2]

\* C25: at every point of the search the move stack holds exactly the
\* unfrozen squares that hold a piece, each once, in strictly increasing
\* row-major order and all before the square under the scan; no frozen
\* square is on it, and its depth is at most the number of unfrozen squares.
C25_MoveStackIsTheAssignedSquares ==
    pc \in {"search", "postverify"} =>
        /\ {stack[k] : k \in 1..Len(stack)}
              = {c \in Cells : ~ board[c].frozen /\ board[c].cur_value # 0}
        /\ \A k \in 1..(Len(stack) - 1) :
              RowMajor(stack[k]) < RowMajor(stack[k + 1])
        /\ \A k \in 1..Len(stack) : RowMajor(stack[k]) < RowMajor(<<i, j>>)
        /\ Len(stack) <= Cardinality({c \in Cells : ~ board[c].frozen})

\* the search has backtracked and has three or more squares stacked, with
\* frozen squares between them
C25_Witness ==
    /\ pc = "search"
    /\ stats.num_unstackings > 0
    /\ Len(stack) >= 3
    /\ \E c \in Cells :
          /\ board[c].frozen
          /\ RowMajor(stack[1]) < RowMajor(c)
          /\ RowMajor(c) < RowMajor(stack[Len(stack)])

-----------------------------------------------------------------------------
\* C26: when the loaded clues pass partial verification, in every state of
\* preprocessing and of the search, and so whenever the preprocessor reports
\* solvable, no row, column or subsquare holds the same piece twice.
C26_NoDuplicatesWhileSolving ==
    pc \in {"preprocess", "preprocessed", "search", "postverify"} =>
        NoDuplicate(ValuesOf(board))

-----------------------------------------------------------------------------
\* C27: in every state of the search, every unfrozen square has at most
\* num_neighbors bitmasks on its candidate stack (topmask is at most
\* num_neighbors - 1).
C27_FramesWithinNeighborCount ==
    pc \in {"search", "postverify"} =>
        \A c \in Cells :
            ~ board[c].frozen => Len(board[c].candidate) <= num_neighbors

-----------------------------------------------------------------------------
\* C28: verify_solution with full_solution = false succeeds iff no value of
\* 1..N2 occurs more than once in a row, column or subsquare (blank squares
\* ignored); with full_solution = true it succeeds iff every value of 1..N2
\* occurs exactly once in every row, column and subsquare; so full success
\* implies partial success.
C28_VerifyMatchesItsContract ==
    /\ verify_solution(board, FALSE) <=> NoDuplicate(ValuesOf(board))
    /\ verify_solution(board, TRUE) <=> IsFullSolution(ValuesOf(board))
    /\ verify_solution(board, TRUE) => verify_solution(board, FALSE)

\* main has verified a finished board that is a full solution of clues that
\* were a partial but not a full one
C28_Witness ==
    /\ pc = "exit"
    /\ Occurrences(out, "statistics") = 1
    /\ verify_solution(board, TRUE)
    /\ verify_solution(saved_board, FALSE)
    /\ ~ verify_solution(saved_board, TRUE)

-----------------------------------------------------------------------------
\* every unfrozen square has a bitmask on its candidate stack (topmask >= 0)
EveryOpenSquareHasAFrame ==
    \A c \in Cells : ~ board[c].frozen => Len(board[c].candidate) >= 1

\* C29 as stated: in every state from the return of load_file to the end of
\* solving, every unfrozen square has topmask >= 0.
C29_LiveFrameFromLoadOn ==
    pc \in {"save", "verify", "preprocess", "preprocessed", "search",
            "postverify"} => EveryOpenSquareHasAFrame

\* C29: load_file leaves topmask = -1 in every square; from the first
\* find_candidates of preprocess_board to the end of solving every unfrozen
\* square has topmask >= 0, also after every unstacking of the search, which
\* never removes the base bitmask of a square.
C29_LiveFrameFromFirstFindCandidates ==
    /\ (pc \in {"save", "verify"} \/ (pc = "preprocess" /\ first_time)) =>
           \A c \in Cells : board[c].candidate = << >>
    /\ (~ first_time /\ pc \in {"preprocess", "preprocessed", "search",
                                "postverify", "exit", "aborted"}) =>
           EveryOpenSquareHasAFrame

\* the search has unstacked a square, and an unfrozen square is back to its
\* base bitmask alone
C29_Witness ==
    /\ pc = "search"
    /\ stats.num_unstackings > 0
    /\ i <= N2
    /\ ~ board[<<i, j>>].frozen
    /\ board[<<i, j>>].cur_value = 0
    /\ \E c \in NeighborSet[<<i, j>>] :
          ~ board[c].frozen /\ Len(board[c].candidate) = 1

-----------------------------------------------------------------------------
\* the numbers of the data lines of the file: neither comments nor blank
DataLines == {k \in 1..Len(FileText(infile)) : IsDataLine(FileText(infile)[k])}

\* C30 as stated: a file whose number of data lines differs from N2, by
\* fewer or by more, never gets past load_file, and the program stops
\* without saving, verifying or solving anything.
C30_LineCountMismatchIsFatal ==
    Cardinality(DataLines) # game_N * game_N =>
        /\ pc \in {"load", "exit"}
        /\ ~ BoardIsSaved
        /\ first_time
        /\ stack = << >>

\* C30: a file with fewer than N2 data lines never gets past load_file: the
\* program stops with one error message and without saving, verifying or
\* solving anything.  load_file returns once it has read N2 data lines, and
\* it reads none of the lines that follow them: a file with more data lines
\* is loaded from its first N2.
C30_TooFewDataLinesIsFatal ==
    /\ Cardinality(DataLines) < game_N * game_N =>
          /\ pc \in {"load", "exit"}
          /\ ~ BoardIsSaved
          /\ first_time
          /\ stack = << >>
          /\ pc = "exit" => Len(out) = 1 /\ out[1] # "board"
    /\ pc \notin {"load", "exit"} =>
          /\ Cardinality({k \in DataLines : k <= loader.linenum})
                = game_N * game_N
          /\ loader.linenum \in DataLines

\* the program has stopped at the end of a file that lacks its last row
C30_Witness ==
    /\ pc = "exit"
    /\ out = << "ended prematurely" >>
    /\ Cardinality(DataLines) = game_N * game_N - 1
    /\ loader.i = N2
    /\ loader.linenum = Len(FileText(infile)) + 1

====
